---------------------------- MODULE Spec2Model ----------------------------
(***************************************************************************)
(* A model of src/bot.py: a Telegram bot (aiogram 3, polling) that         *)
(* downloads a YouTube video with yt-dlp, and splits and sends files.      *)
(*                                                                         *)
(* Three specifications share this module:                                 *)
(*   Spec        the handlers (start, handle_message, handle_callback,     *)
(*               progress_hook), the download directory and the FSM state; *)
(*   SplitSpec   split_file applied to one file, for any content and any   *)
(*               chunk limit within the bounds;                            *)
(*   LimiterSpec TelegramRateLimiter.wait_if_needed called by concurrent   *)
(*               tasks, against a clock.                                   *)
(*                                                                         *)
(* Scheduling: one asyncio event loop.  A handler runs without interruption*)
(* from one await that suspends (a gateway call, asyncio.sleep) to the     *)
(* next, so every action below is one such stretch of a handler.  The      *)
(* dispatcher handles every update in a task of its own, so handlers of    *)
(* the same chat interleave at those awaits.  The subprocess calls         *)
(* (subprocess.run, Popen.communicate) are synchronous: nothing else runs  *)
(* meanwhile.  Every gateway call (reply, edit, send, delete, answer) may  *)
(* raise; an exception nobody catches ends the handler where it stands.    *)
(***************************************************************************)
EXTENDS Integers, Sequences, FiniteSets, TLC

(***************************************************************************)
(* Bounds of the model.                                                    *)
(***************************************************************************)
MaxJobs == 2         \* handle_message invocations
MaxCallbacks == 2    \* handle_callback invocations
MaxHandlers == 2     \* invocations of both handlers together
MaxSize == 5         \* largest file yt-dlp writes, in the unit of CHUNK_SIZE
MaxLen == 5          \* SplitSpec: longest file content
MaxChunk == 3        \* SplitSpec: largest chunk limit
NumCallers == 2      \* LimiterSpec: concurrent tasks
MaxCalls == 20       \* LimiterSpec: calls of wait_if_needed
MaxTick == 4         \* LimiterSpec: last clock tick

(***************************************************************************)
(* Program constants.  Sizes are scaled: the unit is such that             *)
(* int(CHUNK_SIZE) is 2 and MAX_FILE_SIZE, which is larger, is 3 (the      *)
(* source has 1.9 GiB and 2 GiB).  The minute ceiling of the limiter is    *)
(* scaled from 1200 to 6; the smoothing multiples 20 and 5 are the         *)
(* source's.  A minute is TicksPerMinute clock ticks.                      *)
(***************************************************************************)
MAX_FILE_SIZE == 3
CHUNK_SIZE == 2
MinuteCeiling == 6
LongPauseEvery == 20
ShortPauseEvery == 5
TicksPerMinute == 2

Chats == {1}
Titles == {"a"}
Jobs == 1..MaxJobs
Cbs == 1..MaxCallbacks
KbMsgs == {1}
Bytes == {0, 1}

Min(a, b) == IF a < b THEN a ELSE b

(***************************************************************************)
(* The download directory.  A file name is video_<chat>_<title>.mp4        *)
(* (part = 0) or video_<chat>_<title>_part<NN>.mp4 (part = NN).  None is   *)
(* Python's None where a path is expected.                                 *)
(***************************************************************************)
Name(ch, t, k) == [chat |-> ch, title |-> t, part |-> k]
None == Name(0, "", 0)
MaxParts == MaxSize
Artifacts == {Name(ch, t, 0) : ch \in Chats, t \in Titles}
FileNames == {Name(ch, t, k) : ch \in Chats, t \in Titles, k \in 0..MaxParts}
Absent == [exists |-> FALSE, data |-> <<>>]
File(d) == [exists |-> TRUE, data |-> d]

VARIABLES
  files,       \* the download directory: file name -> [exists, data]
  fsm,         \* FSMContext state per chat
  fsmData,     \* FSMContext data per chat: the filepath entry
  job,         \* handle_message invocations
  cb,          \* handle_callback invocations
  kbText,      \* text of the messages that carry the inline keyboard
  splitSrc,    \* SplitSpec: the content of the file given to split_file
  splitLimit,  \* SplitSpec: the chunk limit
  splitOut,    \* SplitSpec: the list split_file returned
  splitPhase,  \* SplitSpec: "ready", "done" (a list returned), "failed" ([]),
               \*            "cleaned", "cleaned_twice" (cleanup_files called)
  splitErrs,   \* SplitSpec: the paths whose os.remove raised in cleanup_files
  lim,         \* LimiterSpec: the TelegramRateLimiter object
  now,         \* LimiterSpec: the clock, in ticks
  caller,      \* LimiterSpec: tasks calling wait_if_needed
  issued       \* LimiterSpec: gateway calls issued per tick

mainVars == <<fsm, fsmData, job, cb, kbText>>
splitVars == <<splitSrc, splitLimit, splitOut, splitPhase, splitErrs>>
limVars == <<lim, now, caller, issued>>
vars == <<files, mainVars, splitVars, limVars>>

(***************************************************************************)
(* cleanup_files: every path that is not None and exists is removed        *)
(* (ShouldRemove is the test of line 257).  os.remove of a path that does  *)
(* not exist raises; cleanup_files catches and logs it, path by path:      *)
(* cleanup_errors are the paths for which that happens.                    *)
(***************************************************************************)
ShouldRemove_noExists(fsys, p) == p # None

ShouldRemove(fsys, p) == p # None /\ fsys[p].exists

cleanup_files(fsys, paths) ==
  [n \in FileNames |-> IF n \in paths /\ ShouldRemove(fsys, n)
                       THEN Absent ELSE fsys[n]]

cleanup_errors(fsys, paths) ==
  {p \in paths : ShouldRemove(fsys, p) /\ ~fsys[p].exists}

(***************************************************************************)
(* split_file.  Chunks is the read loop: f.read(limit) until it returns    *)
(* nothing, one part per chunk.  failAt = k > 0 is an I/O error while part *)
(* k is written: the part file is open (so it exists, with nothing in it)  *)
(* and is not yet in the list, the handler removes the parts of the list   *)
(* and returns [].  A missing source file makes open() raise: [] as well.  *)
(***************************************************************************)
RECURSIVE Chunks_dropShort(_, _)
Chunks_dropShort(content, limit) ==
  IF Len(content) < limit THEN <<>>
  ELSE <<SubSeq(content, 1, limit)>>
         \o Chunks_dropShort(SubSeq(content, limit + 1, Len(content)), limit)

RECURSIVE Chunks(_, _)
Chunks(content, limit) ==
  IF content = <<>> THEN <<>>
  ELSE <<SubSeq(content, 1, Min(limit, Len(content)))>>
         \o Chunks(SubSeq(content, limit + 1, Len(content)), limit)

PartName(filepath, k) == Name(filepath.chat, filepath.title, k)

split_file(fsys, filepath, limit, failAt) ==
  IF ~fsys[filepath].exists THEN [files |-> fsys, parts |-> <<>>]
  ELSE LET chunks == Chunks(fsys[filepath].data, limit)
           n == Len(chunks)
       IN IF failAt \in 1..n
          THEN [files |-> [f \in FileNames |->
                            IF f = PartName(filepath, failAt) THEN File(<<>>)
                            ELSE IF f \in {PartName(filepath, k) : k \in 1..(failAt - 1)}
                                 THEN Absent ELSE fsys[f]],
                parts |-> <<>>]
          ELSE [files |-> [f \in FileNames |->
                            IF \E k \in 1..n : f = PartName(filepath, k)
                            THEN File(chunks[f.part]) ELSE fsys[f]],
                parts |-> [k \in 1..n |-> PartName(filepath, k)]]


(***************************************************************************)
(* The values the variables of a specification hold while another          *)
(* specification runs.                                                     *)
(***************************************************************************)
NoArtifact == [filepath |-> None, filesize |-> 0]
IdleJob == [pc |-> "idle", chat |-> 0, text |-> "", corrective |-> 0,
            status |-> "none", wrote |-> None,
            size |-> 0, rc |-> 0, exited |-> FALSE, hook |-> "none",
            ret |-> NoArtifact, read |-> 0, reported |-> <<>>, cleanups |-> 0]
IdleCb == [pc |-> "idle", chat |-> 0, data |-> "none", path |-> None, kb |-> 0,
           entitled |-> FALSE,
           parts |-> <<>>, i |-> 0, attempts |-> <<>>, notices |-> <<>>,
           waits |-> 0, sends |-> 0, cleanups |-> 0, cleared |-> FALSE]
MainIdle ==
  /\ fsm = [ch \in Chats |-> "none"]
  /\ fsmData = [ch \in Chats |-> None]
  /\ job = [j \in Jobs |-> IdleJob]
  /\ cb = [c \in Cbs |-> IdleCb]
  /\ kbText = [m \in KbMsgs |-> "offer"]
SplitIdle ==
  /\ splitSrc = <<>>
  /\ splitLimit = CHUNK_SIZE
  /\ splitOut = <<>>
  /\ splitPhase = "ready"
  /\ splitErrs = {}
LimIdle ==
  /\ lim = [message_count |-> 0, last_minute |-> 0, messages_per_minute |-> 0]
  /\ now = 0
  /\ caller = [c \in 1..NumCallers |-> [pc |-> "idle", wake |-> 0]]
  /\ issued = [t \in 0..MaxTick |-> 0]

(***************************************************************************)
(* SplitSpec: split_file on one file of the download directory, for every  *)
(* content of 1..MaxLen bytes and every chunk limit of 1..MaxChunk, with   *)
(* or without an I/O error, followed by the cleanup handle_callback does.  *)
(***************************************************************************)
SplitFile == Name(1, "a", 0)
Contents == UNION {[1..n -> Bytes] : n \in 1..MaxLen}

SplitInit ==
  /\ splitSrc \in Contents
  /\ splitLimit \in 1..MaxChunk
  /\ files = [n \in FileNames |-> IF n = SplitFile THEN File(splitSrc) ELSE Absent]
  /\ splitOut = <<>>
  /\ splitPhase = "ready"
  /\ splitErrs = {}
  /\ MainIdle
  /\ LimIdle

SplitRun(failAt) ==
  /\ splitPhase = "ready"
  /\ LET r == split_file(files, SplitFile, splitLimit, failAt)
     IN /\ files' = r.files
        /\ splitOut' = r.parts
        /\ splitPhase' = IF r.parts = <<>> THEN "failed" ELSE "done"
  /\ UNCHANGED <<splitSrc, splitLimit, splitErrs, mainVars, limVars>>

(***************************************************************************)
(* cleanup_files(filepath, *parts), called once and then once more with    *)
(* the same paths; filepath may also be None, as on the cancel branch.     *)
(***************************************************************************)
SplitPaths == {SplitFile} \cup {splitOut[k] : k \in 1..Len(splitOut)}

SplitCleanup(withNone) ==
  /\ splitPhase \in {"done", "failed", "cleaned"}
  /\ LET paths == SplitPaths \cup (IF withNone THEN {None} ELSE {})
     IN /\ files' = cleanup_files(files, paths)
        /\ splitErrs' = splitErrs \cup cleanup_errors(files, paths)
  /\ splitPhase' = IF splitPhase = "cleaned" THEN "cleaned_twice" ELSE "cleaned"
  /\ UNCHANGED <<splitSrc, splitLimit, splitOut, mainVars, limVars>>

SplitNext ==
  \/ \E failAt \in 0..MaxLen : SplitRun(failAt)
  \/ \E withNone \in BOOLEAN : SplitCleanup(withNone)

SplitSpec == SplitInit /\ [][SplitNext]_vars

Ceil(a, b) == (a + b - 1) \div b

RECURSIVE Concat(_, _)
Concat(fsys, names) ==
  IF names = <<>> THEN <<>>
  ELSE fsys[Head(names)].data \o Concat(fsys, Tail(names))

RECURSIVE SumLen(_, _)
SumLen(fsys, names) ==
  IF names = <<>> THEN 0
  ELSE Len(fsys[Head(names)].data) + SumLen(fsys, Tail(names))

(***************************************************************************)
(* C1: when split_file returns its list for a file of S > 0 bytes and a    *)
(* chunk limit L > 0, the list names ceil(S/L) part files, numbered 1, 2,  *)
(* ... in order; every part but the last holds exactly L bytes, the last   *)
(* holds S - L*(count-1) bytes, which is more than 0 and at most L; the    *)
(* lengths add up to S; the parts concatenated in order are the source     *)
(* file, byte for byte (and the source file is left as it was).            *)
(***************************************************************************)
C1_SplitPartition ==
  splitPhase = "done" =>
    LET S == Len(splitSrc)
        L == splitLimit
        n == Len(splitOut)
        last == Len(files[splitOut[n]].data)
    IN /\ n = Ceil(S, L)
       /\ \A k \in 1..n : splitOut[k] = PartName(SplitFile, k) /\ files[splitOut[k]].exists
       /\ \A k \in 1..(n - 1) : Len(files[splitOut[k]].data) = L
       /\ last = S - L * (n - 1)
       /\ 0 < last /\ last <= L
       /\ SumLen(files, splitOut) = S
       /\ Concat(files, splitOut) = splitSrc
       /\ files[SplitFile] = File(splitSrc)

C1_Witness ==
  /\ splitPhase = "done"
  /\ Len(splitOut) >= 3
  /\ Len(files[splitOut[Len(splitOut)]].data) < splitLimit

(***************************************************************************)
(* C14: cleanup_files is idempotent.  After it was called, and after it    *)
(* was called again with the same artifact and part paths, none of the     *)
(* given files exists, and no call met an error: a path that is missing    *)
(* already, or None, is ignored (os.remove is not tried on it).            *)
(***************************************************************************)
C14_CleanupIdempotent ==
  splitPhase \in {"cleaned", "cleaned_twice"} =>
    /\ \A p \in SplitPaths : ~files[p].exists
    /\ splitErrs = {}

C14_Witness ==
  /\ splitPhase = "cleaned_twice"
  /\ Len(splitOut) >= 2

(***************************************************************************)
(* C16: when split_file has returned the empty list after an I/O error,    *)
(* no part file of the split is in the directory: neither a part written   *)
(* in full before the error nor the part that was being written.           *)
(***************************************************************************)
C16_NoPartAfterFailedSplit ==
  splitPhase = "failed" =>
    \A k \in 1..MaxParts : ~files[PartName(SplitFile, k)].exists


(***************************************************************************)
(* Spec: the handlers.                                                     *)
(*                                                                         *)
(* job[j] is one invocation of handle_message:                             *)
(*   pc       where the handler is suspended, or how it ended: "failed"    *)
(*            (it returned after an error text), "rejected" (the text was  *)
(*            no YouTube URL), "aborted" (an exception left the handler);  *)
(*   text     the text of the message;                                     *)
(*   corrective  the corrective replies ("send a correct link") delivered; *)
(*   status   the text of its status message ("none": not created);        *)
(*   wrote, size, rc, exited   the yt-dlp process of download_video: the   *)
(*            artifact it left in the directory, its exit code;            *)
(*   ret      what download_video returned: filepath and filesize;         *)
(*   hook     the progress_hook task: "none", "scheduled", "done";         *)
(*   read, reported  the lines of the process the task has read, and the   *)
(*            percentages for which it called edit_message_text, in order; *)
(*   cleanups the calls of cleanup_files the handler made.                 *)
(***************************************************************************)
Init ==
  /\ files = [n \in FileNames |-> Absent]
  /\ MainIdle
  /\ SplitIdle
  /\ LimIdle

Sizes == {MAX_FILE_SIZE, MAX_FILE_SIZE + 1, MaxSize}
Content(s) == [i \in 1..s |-> i % 2]

(***************************************************************************)
(* start: the reply, then set_state(waiting_for_url).  A reply that raises *)
(* leaves the state as it was.  help_cmd replies and changes nothing.      *)
(***************************************************************************)
start(ch, ok) ==
  /\ fsm' = [fsm EXCEPT ![ch] = IF ok THEN "waiting_for_url" ELSE @]
  /\ UNCHANGED <<files, fsmData, job, cb, kbText, splitVars, limVars>>

(***************************************************************************)
(* handle_message is registered for the state waiting_for_url only.  The   *)
(* invocations are numbered in the order of their arrival.                 *)
(***************************************************************************)
Arrived == Cardinality({j \in Jobs : job[j].pc # "idle"})
             + Cardinality({c \in Cbs : cb[c].pc # "idle"})

(***************************************************************************)
(* is_youtube_url: re.match of the four patterns at the start of the text, *)
(* on the texts of the model.  A text that fails it gets the corrective    *)
(* reply and the handler returns; any other gets the status message.  A    *)
(* message without text (a photo) has message.text None: strip() raises    *)
(* and the handler ends at once.                                           *)
(***************************************************************************)
NoText == "(no text)"
Texts == {"https://youtu.be/x", "hello", NoText}
YouTubeTexts == {"https://youtu.be/x"}
is_youtube_url(url) == url \in YouTubeTexts

AfterUrlCheck_noReturn(url) == "reply_checking"

AfterUrlCheck(url) ==
  IF url = NoText THEN "aborted"
  ELSE IF is_youtube_url(url) THEN "reply_checking"
  ELSE "reply_invalid"

MessageArrives(j, ch, text) ==
  /\ job[j].pc = "idle"
  /\ Arrived < MaxHandlers
  /\ j > 1 => job[j - 1].pc # "idle"
  /\ fsm[ch] = "waiting_for_url"
  /\ job' = [job EXCEPT ![j].chat = ch, ![j].text = text,
                        ![j].pc = AfterUrlCheck(text)]
  /\ UNCHANGED <<files, fsm, fsmData, cb, kbText, splitVars, limVars>>

ReplyInvalid(j, ok) ==
  /\ job[j].pc = "reply_invalid"
  /\ job' = IF ok THEN [job EXCEPT ![j].corrective = @ + 1, ![j].pc = "rejected"]
            ELSE [job EXCEPT ![j].pc = "aborted"]
  /\ UNCHANGED <<files, fsm, fsmData, cb, kbText, splitVars, limVars>>

(***************************************************************************)
(* The status message is created; then check_dependencies and              *)
(* get_video_info run (synchronously) and choose the next gateway call.    *)
(***************************************************************************)
ReplyChecking(j, ok, depsOk, infoOk) ==
  /\ job[j].pc = "reply_checking"
  /\ job' = IF ~ok THEN [job EXCEPT ![j].pc = "aborted"]
            ELSE [job EXCEPT ![j].status = "checking",
                             ![j].pc = IF ~depsOk THEN "edit_err_deps"
                                       ELSE IF ~infoOk THEN "edit_err_info"
                                       ELSE "edit_info"]
  /\ UNCHANGED <<files, fsm, fsmData, cb, kbText, splitVars, limVars>>

EditErrDeps(j, ok) ==
  /\ job[j].pc = "edit_err_deps"
  /\ job' = IF ok THEN [job EXCEPT ![j].status = "err_deps", ![j].pc = "failed"]
            ELSE [job EXCEPT ![j].pc = "aborted"]
  /\ UNCHANGED <<files, fsm, fsmData, cb, kbText, splitVars, limVars>>

EditErrInfo(j, ok) ==
  /\ job[j].pc = "edit_err_info"
  /\ job' = IF ok THEN [job EXCEPT ![j].status = "err_info", ![j].pc = "failed"]
            ELSE [job EXCEPT ![j].pc = "aborted"]
  /\ UNCHANGED <<files, fsm, fsmData, cb, kbText, splitVars, limVars>>

(***************************************************************************)
(* download_video.  Without the dependencies it returns (None, 0).         *)
(* Otherwise it starts yt-dlp, creates the progress_hook task and          *)
(* evaluates `await process.communicate()`: communicate is the synchronous *)
(* method of subprocess.Popen, it returns a tuple once the process has     *)
(* exited, and awaiting a tuple raises TypeError, which the `except        *)
(* Exception` of the function turns into (None, 0).  The exit code test    *)
(* and the directory lookup that follow the await are never reached,       *)
(* whatever the process did.                                               *)
(***************************************************************************)
download_video(depsOk) ==
  IF ~depsOk THEN NoArtifact
  ELSE NoArtifact

(***************************************************************************)
(* What handle_message does with the result of download_video: the error   *)
(* edit without a file, the direct send up to MAX_FILE_SIZE, the offer to  *)
(* split above it.  download_video returns no file, so the handler always  *)
(* goes on to the error edit: the send and the offer (and with the offer   *)
(* set_state(waiting_for_split) and update_data) are never reached and     *)
(* have no actions here.                                                   *)
(***************************************************************************)
Evaluate(res) ==
  IF res.filepath = None THEN "edit_err_download"
  ELSE IF res.filesize <= MAX_FILE_SIZE THEN "reply_video"
  ELSE "edit_offer"

(***************************************************************************)
(* The yt-dlp process: it leaves video_<chat>_<title>.mp4 of some size in  *)
(* the directory or leaves nothing, and exits with 0 or not.  A file that  *)
(* is already there is left as it is.                                      *)
(***************************************************************************)
ProcOutcomes ==
  {[wrote |-> TRUE, title |-> t, size |-> s, rc |-> r] :
     t \in Titles, s \in Sizes, r \in {0, 1}}
  \cup {[wrote |-> FALSE, title |-> "", size |-> 0, rc |-> r] : r \in {0, 1}}

RunProcess(fsys, ch, o) ==
  LET n == Name(ch, o.title, 0)
  IN IF o.wrote /\ ~fsys[n].exists
     THEN [fsys EXCEPT ![n] = File(Content(o.size))]
     ELSE fsys

EditInfo(j, ok, depsOk, o) ==
  /\ job[j].pc = "edit_info"
  /\ IF ~ok
     THEN /\ job' = [job EXCEPT ![j].pc = "aborted"]
          /\ files' = files
     ELSE LET res == download_video(depsOk)
              n == Name(job[j].chat, o.title, 0)
              fs2 == RunProcess(files, job[j].chat, o)
          IN IF ~depsOk
             THEN /\ job' = [job EXCEPT ![j].status = "starting",
                                        ![j].ret = res,
                                        ![j].pc = Evaluate(res)]
                  /\ files' = files
             ELSE /\ files' = fs2
                  /\ job' = [job EXCEPT
                       ![j].status = "starting",
                       ![j].wrote = IF o.wrote THEN n ELSE None,
                       ![j].size = IF o.wrote THEN Len(fs2[n].data) ELSE 0,
                       ![j].rc = o.rc,
                       ![j].exited = TRUE,
                       ![j].hook = "scheduled",
                       ![j].ret = res,
                       ![j].pc = Evaluate(res)]
  /\ UNCHANGED <<fsm, fsmData, cb, kbText, splitVars, limVars>>

EditErrDownload(j, ok) ==
  /\ job[j].pc = "edit_err_download"
  /\ job' = IF ok THEN [job EXCEPT ![j].status = "err_download", ![j].pc = "failed"]
            ELSE [job EXCEPT ![j].pc = "aborted"]
  /\ UNCHANGED <<files, fsm, fsmData, cb, kbText, splitVars, limVars>>

(***************************************************************************)
(* progress_hook: `while process.poll() is None`, one iteration per step:  *)
(* readline gives the next line of the process, and for a percentage with  *)
(* percent % 10 == 0 the task calls wait_if_needed and edit_message_text   *)
(* (an edit that raises is logged); the task keeps nothing from one line   *)
(* to the next.  The task first runs when the handler suspends, which is   *)
(* after communicate has waited for the process to exit.                   *)
(* ProgressLines are the percentages of the progress lines a process       *)
(* prints: one that downloads a file repeats values (yt-dlp prints many    *)
(* lines per percent), one that does not prints none.                      *)
(***************************************************************************)
ProgressStep == 10

ProgressLines(jb) == IF jb.wrote # None THEN <<5, 10, 10, 20, 20>> ELSE <<>>

process_running_always(jb) == TRUE

process_running(jb) == ~jb.exited

progress_hook(j, ok) ==
  /\ job[j].hook = "scheduled"
  /\ job' = IF process_running(job[j])
            THEN LET lines == ProgressLines(job[j])
                     k == job[j].read + 1
                 IN IF k > Len(lines) THEN job
                    ELSE IF lines[k] % ProgressStep # 0
                    THEN [job EXCEPT ![j].read = k]
                    ELSE [job EXCEPT ![j].read = k,
                                     ![j].reported = Append(@, lines[k]),
                                     ![j].status = IF ok THEN "progress" ELSE @]
            ELSE [job EXCEPT ![j].hook = "done"]
  /\ UNCHANGED <<files, fsm, fsmData, cb, kbText, splitVars, limVars>>


(***************************************************************************)
(* cb[c] is one invocation of handle_callback.  The dispatcher gives it    *)
(* every callback query, whatever the FSM state and whatever message the   *)
(* pressed keyboard is on: data is "cancel", "split" (split_<path>) or     *)
(* "other".                                                                *)
(*   entitled  whether, when the query arrived, the chat was in            *)
(*             waiting_for_split and, for a split, the FSM data held the   *)
(*             very path of the button (the handler tests neither; this    *)
(*             is kept for the properties);                                *)
(*   parts, i  the list split_file returned and the part of the loop;      *)
(*   attempts  the sends of parts tried so far, in order: the part, the    *)
(*             mode ("video", "document"), whether it succeeded (opening   *)
(*             a part file that is gone fails the attempt);                *)
(*   notices   the parts the user was told had failed, in order;           *)
(*   waits     the calls of rate_limiter.wait_if_needed the handler made;  *)
(*   sends     its calls of send_video and send_document;                  *)
(*   cleanups  the calls of cleanup_files; cleared: state.clear() ran.     *)
(***************************************************************************)
Entitled(ch, d, p) ==
  /\ fsm[ch] = "waiting_for_split"
  /\ d = "split" => fsmData[ch] = p

CallbackArrives(c, ch, d, p, m) ==
  /\ cb[c].pc = "idle"
  /\ Arrived < MaxHandlers
  /\ c > 1 => cb[c - 1].pc # "idle"
  /\ d = "split" <=> p # None
  /\ cb' = [cb EXCEPT ![c].chat = ch, ![c].data = d, ![c].path = p,
                      ![c].kb = m, ![c].entitled = Entitled(ch, d, p),
                      ![c].pc = "answer"]
  /\ UNCHANGED <<files, fsm, fsmData, job, kbText, splitVars, limVars>>

(***************************************************************************)
(* After query.answer(): wait_if_needed; the cancel branch calls           *)
(* cleanup_files with the filepath of the FSM data before its edit; the    *)
(* split branch tests that the file exists; any other data ends the        *)
(* handler.                                                                *)
(***************************************************************************)
CbAnswer(c, ok) ==
  /\ cb[c].pc = "answer"
  /\ IF ~ok
     THEN /\ cb' = [cb EXCEPT ![c].pc = "aborted"]
          /\ files' = files
     ELSE IF cb[c].data = "cancel"
     THEN /\ files' = cleanup_files(files, {fsmData[cb[c].chat]})
          /\ cb' = [cb EXCEPT ![c].waits = @ + 1, ![c].cleanups = @ + 1,
                              ![c].pc = "edit_cancel"]
     ELSE IF cb[c].data = "split"
     THEN /\ cb' = [cb EXCEPT ![c].waits = @ + 1,
                              ![c].pc = IF files[cb[c].path].exists
                                        THEN "edit_splitting" ELSE "edit_not_found"]
          /\ files' = files
     ELSE /\ cb' = [cb EXCEPT ![c].waits = @ + 1, ![c].pc = "done"]
          /\ files' = files
  /\ UNCHANGED <<fsm, fsmData, job, kbText, splitVars, limVars>>

(***************************************************************************)
(* An edit that ends the handler: the text, then state.clear().            *)
(***************************************************************************)
FinalEdit(c, ok, text) ==
  /\ IF ok
     THEN /\ kbText' = [kbText EXCEPT ![cb[c].kb] = text]
          /\ fsm' = [fsm EXCEPT ![cb[c].chat] = "none"]
          /\ fsmData' = [fsmData EXCEPT ![cb[c].chat] = None]
          /\ cb' = [cb EXCEPT ![c].cleared = TRUE, ![c].pc = "done"]
     ELSE /\ cb' = [cb EXCEPT ![c].pc = "aborted"]
          /\ UNCHANGED <<kbText, fsm, fsmData>>
  /\ UNCHANGED <<files, job, splitVars, limVars>>

CbEditCancel(c, ok) ==
  /\ cb[c].pc = "edit_cancel"
  /\ FinalEdit(c, ok, "cancelled")

CbEditNotFound(c, ok) ==
  /\ cb[c].pc = "edit_not_found"
  /\ FinalEdit(c, ok, "not_found")

CbEditSplitErr(c, ok) ==
  /\ cb[c].pc = "edit_split_err"
  /\ FinalEdit(c, ok, "err_split")

(***************************************************************************)
(* The delivery loop.  BeginPart opens part k for send_video: a part file  *)
(* that is gone raises inside the try, which leads to the except branch    *)
(* (the notice by send_message).  AfterPart goes on to the next part or,   *)
(* after the last, to cleanup_files and delete_message.                    *)
(***************************************************************************)
Attempt(k, mode, ok) == [part |-> k, mode |-> mode, ok |-> ok]

BeginPart(r, fsys, k) ==
  IF fsys[r.parts[k]].exists
  THEN [r EXCEPT !.i = k, !.pc = "send_video"]
  ELSE [r EXCEPT !.i = k, !.pc = "notice",
                 !.attempts = Append(@, Attempt(k, "video", FALSE))]

AfterPart(r, fsys) ==
  IF r.i < Len(r.parts) THEN BeginPart(r, fsys, r.i + 1)
  ELSE [r EXCEPT !.cleanups = @ + 1, !.pc = "delete_message"]

PartsOf(r) == {r.parts[k] : k \in 1..Len(r.parts)}

Deliver(c, r) ==
  /\ cb' = [cb EXCEPT ![c] = r]
  /\ files' = IF r.pc = "delete_message"
              THEN cleanup_files(files, {r.path} \cup PartsOf(r))
              ELSE files
  /\ UNCHANGED <<fsm, fsmData, job, kbText, splitVars, limVars>>

(***************************************************************************)
(* After the edit "splitting": split_file with int(CHUNK_SIZE); an empty   *)
(* list leads to cleanup_files(filepath) and the error edit, any other     *)
(* list to wait_if_needed, once, and then to the loop.                     *)
(***************************************************************************)
CbEditSplitting(c, ok, failAt) ==
  /\ cb[c].pc = "edit_splitting"
  /\ IF ~ok
     THEN /\ cb' = [cb EXCEPT ![c].pc = "aborted"]
          /\ UNCHANGED <<files, kbText>>
     ELSE LET s == split_file(files, cb[c].path, CHUNK_SIZE, failAt)
          IN /\ kbText' = [kbText EXCEPT ![cb[c].kb] = "splitting"]
             /\ IF s.parts = <<>>
                THEN /\ files' = cleanup_files(s.files, {cb[c].path})
                     /\ cb' = [cb EXCEPT ![c].cleanups = @ + 1,
                                         ![c].pc = "edit_split_err"]
                ELSE /\ files' = s.files
                     /\ cb' = [cb EXCEPT ![c] =
                                 BeginPart([@ EXCEPT !.parts = s.parts, !.waits = @ + 1],
                                           s.files, 1)]
  /\ UNCHANGED <<fsm, fsmData, job, splitVars, limVars>>

CbSendVideo(c, ok) ==
  /\ cb[c].pc = "send_video"
  /\ LET r == [cb[c] EXCEPT !.sends = @ + 1,
                            !.attempts = Append(@, Attempt(cb[c].i, "video", ok))]
     IN IF ok THEN Deliver(c, AfterPart(r, files))
        ELSE Deliver(c, [r EXCEPT !.pc = "notice"])

(***************************************************************************)
(* The except branch: send_message, which nothing guards, then the         *)
(* fallback send_document in a try of its own.                             *)
(***************************************************************************)
CbNotice(c, ok) ==
  /\ cb[c].pc = "notice"
  /\ IF ~ok THEN Deliver(c, [cb[c] EXCEPT !.pc = "aborted"])
     ELSE LET r == [cb[c] EXCEPT !.notices = Append(@, cb[c].i)]
          IN IF files[r.parts[r.i]].exists
             THEN Deliver(c, [r EXCEPT !.pc = "send_document"])
             ELSE Deliver(c, AfterPart(
                    [r EXCEPT !.attempts = Append(@, Attempt(r.i, "document", FALSE))],
                    files))

CbSendDocument(c, ok) ==
  /\ cb[c].pc = "send_document"
  /\ Deliver(c, AfterPart(
       [cb[c] EXCEPT !.sends = @ + 1,
                     !.attempts = Append(@, Attempt(cb[c].i, "document", ok))], files))

CbDeleteMessage(c, ok) ==
  /\ cb[c].pc = "delete_message"
  /\ FinalEdit(c, ok, "deleted")

Next ==
  \/ \E ch \in Chats, ok \in BOOLEAN : start(ch, ok)
  \/ \E j \in Jobs, ch \in Chats, text \in Texts : MessageArrives(j, ch, text)
  \/ \E j \in Jobs, ok \in BOOLEAN : ReplyInvalid(j, ok)
  \/ \E j \in Jobs, ok, depsOk, infoOk \in BOOLEAN : ReplyChecking(j, ok, depsOk, infoOk)
  \/ \E j \in Jobs, ok \in BOOLEAN : EditErrDeps(j, ok)
  \/ \E j \in Jobs, ok \in BOOLEAN : EditErrInfo(j, ok)
  \/ \E j \in Jobs, ok, depsOk \in BOOLEAN, o \in ProcOutcomes : EditInfo(j, ok, depsOk, o)
  \/ \E j \in Jobs, ok \in BOOLEAN : EditErrDownload(j, ok)
  \/ \E j \in Jobs, ok \in BOOLEAN : progress_hook(j, ok)
  \/ \E c \in Cbs, ch \in Chats, d \in {"cancel", "split", "other"},
        p \in Artifacts \cup {None}, m \in KbMsgs : CallbackArrives(c, ch, d, p, m)
  \/ \E c \in Cbs, ok \in BOOLEAN : CbAnswer(c, ok)
  \/ \E c \in Cbs, ok \in BOOLEAN : CbEditCancel(c, ok)
  \/ \E c \in Cbs, ok \in BOOLEAN : CbEditNotFound(c, ok)
  \/ \E c \in Cbs, ok \in BOOLEAN, failAt \in 0..MaxParts : CbEditSplitting(c, ok, failAt)
  \/ \E c \in Cbs, ok \in BOOLEAN : CbEditSplitErr(c, ok)
  \/ \E c \in Cbs, ok \in BOOLEAN : CbSendVideo(c, ok)
  \/ \E c \in Cbs, ok \in BOOLEAN : CbNotice(c, ok)
  \/ \E c \in Cbs, ok \in BOOLEAN : CbSendDocument(c, ok)
  \/ \E c \in Cbs, ok \in BOOLEAN : CbDeleteMessage(c, ok)

Spec == Init /\ [][Next]_vars


(***************************************************************************)
(* LimiterSpec: TelegramRateLimiter.  Tasks call wait_if_needed and issue  *)
(* one gateway call when it returns.  The part of wait_if_needed before    *)
(* its sleep is one step; a task that does not sleep issues its call in    *)
(* the same step.  asyncio.sleep ends no earlier than asked: the sleep to  *)
(* the minute boundary ends at a tick of the next minute or later, the     *)
(* pauses of 1 s and 0.2 s (shorter than a tick) at any later step.        *)
(* issued[t] counts the calls issued during tick t.                        *)
(***************************************************************************)
Callers == 1..NumCallers
Minute(t) == t \div TicksPerMinute

LimiterInit ==
  /\ LimIdle
  /\ files = [n \in FileNames |-> Absent]
  /\ MainIdle
  /\ SplitIdle

Issue(t) == [issued EXCEPT ![t] = @ + 1]

wait_if_needed(c) ==
  /\ caller[c].pc = "idle"
  /\ lim.message_count < MaxCalls
  /\ LET cur == Minute(now)
         l1 == IF cur > lim.last_minute
               THEN [lim EXCEPT !.messages_per_minute = 0, !.last_minute = cur]
               ELSE lim
         l2 == [l1 EXCEPT !.message_count = @ + 1, !.messages_per_minute = @ + 1]
     IN /\ lim' = l2
        /\ IF l2.messages_per_minute >= MinuteCeiling
           THEN /\ caller' = [caller EXCEPT ![c] =
                                [pc |-> "sleep_minute", wake |-> (cur + 1) * TicksPerMinute]]
                /\ issued' = issued
           ELSE IF l2.message_count % LongPauseEvery = 0
                   \/ l2.message_count % ShortPauseEvery = 0
           THEN /\ caller' = [caller EXCEPT ![c] = [pc |-> "pause", wake |-> now]]
                /\ issued' = issued
           ELSE /\ caller' = caller
                /\ issued' = Issue(now)
  /\ UNCHANGED <<now, files, mainVars, splitVars>>

(***************************************************************************)
(* The end of the sleep to the minute boundary: the counter is set to 0    *)
(* and last_minute to the minute it is now; the caller's call follows.     *)
(***************************************************************************)
WakeAtMinute(c) ==
  /\ caller[c].pc = "sleep_minute"
  /\ now >= caller[c].wake
  /\ lim' = [lim EXCEPT !.messages_per_minute = 0, !.last_minute = Minute(now)]
  /\ caller' = [caller EXCEPT ![c] = [pc |-> "idle", wake |-> 0]]
  /\ issued' = Issue(now)
  /\ UNCHANGED <<now, files, mainVars, splitVars>>

WakeFromPause(c) ==
  /\ caller[c].pc = "pause"
  /\ caller' = [caller EXCEPT ![c] = [pc |-> "idle", wake |-> 0]]
  /\ issued' = Issue(now)
  /\ UNCHANGED <<lim, now, files, mainVars, splitVars>>

Tick ==
  /\ now < MaxTick
  /\ now' = now + 1
  /\ UNCHANGED <<lim, caller, issued, files, mainVars, splitVars>>

LimiterNext ==
  \/ \E c \in Callers : wait_if_needed(c)
  \/ \E c \in Callers : WakeAtMinute(c)
  \/ \E c \in Callers : WakeFromPause(c)
  \/ Tick

LimiterSpec == LimiterInit /\ [][LimiterNext]_vars


(***************************************************************************)
(* How an invocation stands.                                               *)
(***************************************************************************)
JobEnded(j) == job[j].pc \in {"failed", "aborted"}
JobActive(j) == job[j].pc \notin {"idle", "reply_invalid", "rejected", "failed", "aborted"}
CbEnded(c) == cb[c].pc \in {"done", "aborted"}
CbActive(c) == cb[c].pc \notin {"idle", "done", "aborted"}
ChatQuiet(ch) ==
  /\ \A j \in Jobs : job[j].chat = ch => ~JobActive(j) /\ job[j].pc # "reply_invalid"
  /\ \A c \in Cbs : cb[c].chat = ch => ~CbActive(c)
Acquired(j) == job[j].exited /\ job[j].rc = 0 /\ job[j].wrote # None
Returned(j) == job[j].pc \in {"failed", "delivered", "awaiting_split"}
AfterSplit(c) == cb[c].data = "split" /\ cb[c].parts # <<>>
AttemptsOf(r, k, mode) ==
  {a \in 1..Len(r.attempts) : r.attempts[a].part = k /\ r.attempts[a].mode = mode}
FailedAs(r, k, mode) == \E a \in AttemptsOf(r, k, mode) : ~r.attempts[a].ok
Reported(r) == {r.notices[a] : a \in 1..Len(r.notices)}
TerminalTexts == {"err_deps", "err_info", "err_download"}

(***************************************************************************)
(* C2: the size check is inclusive.  When handle_message has returned for  *)
(* a download that exited with 0 and left an artifact, an artifact of      *)
(* exactly MAX_FILE_SIZE was sent directly (and the session was not put    *)
(* in waiting_for_split), and an artifact of MAX_FILE_SIZE + 1 put the     *)
(* session in waiting_for_split with the choice offered (and was not sent).*)
(***************************************************************************)
C2_SizeCheckDecides ==
  \A j \in Jobs :
    (Returned(j) /\ Acquired(j)) =>
      /\ job[j].size = MAX_FILE_SIZE => job[j].pc = "delivered"
      /\ job[j].size = MAX_FILE_SIZE + 1 => job[j].pc = "awaiting_split"

(***************************************************************************)
(* C3: in any rolling window of one minute (TicksPerMinute consecutive     *)
(* ticks) the gateway calls issued after wait_if_needed are at most the    *)
(* ceiling, for any interleaving of the calling tasks.                     *)
(***************************************************************************)
RECURSIVE IssuedIn(_, _)
IssuedIn(t, w) == IF w = 0 THEN 0 ELSE issued[t] + IssuedIn(t + 1, w - 1)

C3_RollingWindowCeiling ==
  \A t \in 0..(MaxTick - TicksPerMinute + 1) : IssuedIn(t, TicksPerMinute) <= MinuteCeiling

(***************************************************************************)
(* C4: on every path to a terminal outcome cleanup_files is called exactly *)
(* once: by handle_message when it returns after the acquisition failed,   *)
(* by handle_callback when it returns after a cancel or a split request.   *)
(***************************************************************************)
C4_CleanupExactlyOnce ==
  /\ \A j \in Jobs :
       (job[j].pc = "failed" /\ job[j].status = "err_download") => job[j].cleanups = 1
  /\ \A c \in Cbs :
       (cb[c].pc = "done" /\ cb[c].data \in {"cancel", "split"}) => cb[c].cleanups = 1

(***************************************************************************)
(* C5: when a job has ended (it returned, or an exception left the         *)
(* handler) and no other handler of its chat is running, no file of that   *)
(* chat is in the download directory, artifact or part.                    *)
(***************************************************************************)
C5_NoFileAfterTerminal ==
  \A j \in Jobs :
    (JobEnded(j) /\ ChatQuiet(job[j].chat)) =>
      \A n \in FileNames : n.chat = job[j].chat => ~files[n].exists

(***************************************************************************)
(* C6: after a split into n parts, the sends are attempted in ascending    *)
(* order of the parts, handle_callback does not end before every part      *)
(* from 1 to n was attempted, and it cleans up and clears the session only *)
(* after the last part's attempt, which it then does.                      *)
(***************************************************************************)
C6_AllPartsInOrderThenDone ==
  \A c \in Cbs :
    AfterSplit(c) =>
      LET r == cb[c]
          n == Len(r.parts)
      IN /\ \A a, b \in 1..Len(r.attempts) :
              a < b => r.attempts[a].part <= r.attempts[b].part
         /\ (r.cleanups > 0 \/ r.cleared) =>
              \A k \in 1..n : AttemptsOf(r, k, "video") # {}
         /\ CbEnded(c) =>
              /\ \A k \in 1..n : AttemptsOf(r, k, "video") # {}
              /\ r.cleanups = 1
              /\ r.cleared

(***************************************************************************)
(* C7: a part whose primary send fails is retried exactly once, as a       *)
(* document; whatever fails, the parts after it are still sent and the     *)
(* handler ends normally (Done).                                           *)
(***************************************************************************)
C7_FallbackOnceNeverAborts ==
  \A c \in Cbs :
    (AfterSplit(c) /\ CbEnded(c)) =>
      /\ cb[c].pc = "done"
      /\ \A k \in 1..Len(cb[c].parts) :
           /\ Cardinality(AttemptsOf(cb[c], k, "video")) = 1
           /\ Cardinality(AttemptsOf(cb[c], k, "document"))
                = IF FailedAs(cb[c], k, "video") THEN 1 ELSE 0

(***************************************************************************)
(* C8: when a split delivery has ended, the parts reported to the user as  *)
(* failed are exactly the parts whose primary send and fallback send both  *)
(* failed.                                                                 *)
(***************************************************************************)
C8_ReportedAreBothFailed ==
  \A c \in Cbs :
    (AfterSplit(c) /\ cb[c].pc = "done") =>
      Reported(cb[c]) = {k \in 1..Len(cb[c].parts) :
                           FailedAs(cb[c], k, "video") /\ FailedAs(cb[c], k, "document")}

C10_OneActiveJobPerChat ==
  \A ch \in Chats : Cardinality({j \in Jobs : job[j].chat = ch /\ JobActive(j)}) <= 1

(***************************************************************************)
(* C12: a press of the split or the cancel button has an effect only when  *)
(* its chat was in waiting_for_split, for the very artifact of the press,  *)
(* when the press arrived.  A press that arrived in any other state is     *)
(* rejected: no step of its handler splits (creates a file), sends,        *)
(* deletes a file or changes the FSM state or data.                        *)
(***************************************************************************)
C12_PressOnlyWhenAwaiting ==
  [][\A c \in Cbs :
       (cb'[c] # cb[c] /\ cb'[c].data \in {"split", "cancel"} /\ ~cb'[c].entitled) =>
         /\ files' = files
         /\ fsm' = fsm
         /\ fsmData' = fsmData
         /\ cb'[c].parts = <<>>
         /\ cb'[c].attempts = <<>>]_vars

(***************************************************************************)
(* C13: after a job has reached a terminal outcome (handle_message         *)
(* returned after its failure text; handle_callback returned after a       *)
(* cancel or a split request, in a chat that had sent its message to       *)
(* handle_message before) and no handler of the chat is running, the chat  *)
(* is in the state in which its next valid URL starts an acquisition:      *)
(* waiting_for_url, the only state handle_message is registered for.       *)
(***************************************************************************)
TerminalOutcome(ch) ==
  \/ \E j \in Jobs : job[j].chat = ch /\ job[j].pc = "failed"
  \/ /\ \E j \in Jobs : job[j].chat = ch
     /\ \E c \in Cbs : /\ cb[c].chat = ch
                       /\ cb[c].pc = "done"
                       /\ cb[c].data \in {"cancel", "split"}

C13_IdleAfterTerminal ==
  \A ch \in Chats :
    (TerminalOutcome(ch) /\ ChatQuiet(ch)) => fsm[ch] = "waiting_for_url"

(***************************************************************************)
(* C15: a message whose text fails is_youtube_url gets the corrective      *)
(* reply, once, and nothing else: its handler creates no status message,   *)
(* starts no yt-dlp process and no progress task, creates no file, and     *)
(* leaves the FSM state as it was (while no other handler has run, the     *)
(* chat is still in waiting_for_url and the download directory is empty).  *)
(***************************************************************************)
Alone(j) ==
  /\ \A i \in Jobs \ {j} : job[i].pc = "idle"
  /\ \A c \in Cbs : cb[c].pc = "idle"

C15_InvalidTextOnlyReply ==
  \A j \in Jobs :
    (job[j].pc # "idle" /\ job[j].text \notin YouTubeTexts) =>
      /\ job[j].pc \in {"reply_invalid", "rejected", "aborted"}
      /\ job[j].corrective = IF job[j].pc = "rejected" THEN 1 ELSE 0
      /\ job[j].status = "none"
      /\ ~job[j].exited /\ job[j].wrote = None /\ job[j].hook = "none"
      /\ job[j].cleanups = 0
      /\ Alone(j) => /\ fsm[job[j].chat] = "waiting_for_url"
                     /\ \A n \in FileNames : ~files[n].exists

C15_Witness ==
  \E j \in Jobs : job[j].pc = "rejected" /\ job[j].text = "hello" /\ Alone(j)

(***************************************************************************)
(* C17: every send of a part (send_video, and send_document as the         *)
(* fallback) is preceded by a call of wait_if_needed of its own: at every  *)
(* moment of a delivery the handler has called wait_if_needed at least as  *)
(* often as it has sent.                                                   *)
(***************************************************************************)
C17_EachSendWaits ==
  \A c \in Cbs : AfterSplit(c) => cb[c].sends <= cb[c].waits

C19_DownloadReturnsArtifact ==
  \A j \in Jobs :
    Acquired(j) =>
      /\ job[j].ret = [filepath |-> job[j].wrote, filesize |-> job[j].size]
      /\ job[j].pc # "edit_err_download"
      /\ job[j].status # "err_download"

(***************************************************************************)
(* C20: a job's status message is not left showing an in-progress text     *)
(* once the job has ended, whether its handler returned or a gateway call  *)
(* that raised ended it: not the status message of handle_message          *)
(* (checking, starting the download, a percentage), nor the message        *)
(* handle_callback edits (splitting) once no handler works on it.          *)
(***************************************************************************)
InProgressTexts == {"checking", "starting", "progress", "splitting"}

C20_StatusNeverStale ==
  /\ \A j \in Jobs : JobEnded(j) => job[j].status \notin InProgressTexts
  /\ \A c \in Cbs :
       (CbEnded(c) /\ \A d \in Cbs : cb[d].kb = cb[c].kb => ~CbActive(d)) =>
         kbText[cb[c].kb] \notin InProgressTexts

(***************************************************************************)
(* C21: the path download_video returns for a job is the file that job's   *)
(* own yt-dlp run materialized: once the run has exited with 0 and written *)
(* video_<chat>_<title>.mp4, the returned path is that file, and a         *)
(* returned path is never a part file, nor a file of another chat, nor a   *)
(* file another job left in the directory.                                 *)
(***************************************************************************)
C21_ReturnedPathIsOwnArtifact ==
  \A j \in Jobs :
    job[j].exited =>
      /\ Acquired(j) => job[j].ret.filepath = job[j].wrote
      /\ job[j].ret.filepath # None =>
            /\ job[j].ret.filepath = job[j].wrote
            /\ job[j].ret.filepath.part = 0
            /\ job[j].ret.filepath.chat = job[j].chat

=============================================================================
